---- MODULE Spec2Model ----
(***************************************************************************)
(* Model of the single-host crawler of crawl.go.                           *)
(*                                                                         *)
(* Go strings are modelled as sequences of one-character strings, so that  *)
(* the byte-level scans of the program (prefix tests, slicing, the three   *)
(* regular expressions, url.Parse, path.Join) are computed, not assumed.   *)
(* A Go index i (0-based) is the TLA+ index i+1; the slice s[a:b] is       *)
(* SubSeq(s, a+1, b).                                                      *)
(***************************************************************************)
EXTENDS Integers, Sequences, FiniteSets, TLC

VARIABLES
    \* ---- the Crawler object and its options (crawl.go:48-59, 30-35)
    osArgs,      \* os.Args[1:]
    Host,        \* Crawler.Host
    Opts,        \* Crawler.Opts: [Parallel, MaxDepth]
    Counter,     \* Crawler.Counter: map from URL to Count
    web,         \* the HTTP server side: URL -> document served
    memo,        \* values of the pure functions on the site's documents, URLs
    \* ---- goroutines
    mainPc,      \* main / waitUntilDone position
    seedURL,     \* the url main sends first
    wpc,         \* worker -> position inside processURLs / Lookup
    wlookup,     \* worker -> the Lookup{URL, Depth} it received
    wbody,       \* worker -> the response body it read
    wnext,       \* worker -> nextURLs returned by Lookup
    enq,         \* the enqueue goroutines: sequence of [next, depth]
    countTotalRequests,
    requestsDone,
    printed,     \* what PrintResults read from Counter
    \* ---- history of the run (observations, not program state)
    fetchLog,    \* [url, depth] -> number of HTTP GETs issued for it
    failLog,     \* the [url, depth] items whose fetch failed, in order
    sentLog,     \* the Lookups sent on URLChan so far (as a set)
    consumed,    \* the number of Lookups received from URLChan
    wstage,      \* worker -> how far Lookup got with its item:
                 \* "none", "fetched" (line 97), "recorded" (line 103)
    \* ---- the pure-function harness
    fnPc, fnIn, fnHost, fnOut

vars == << osArgs, Host, Opts, Counter, web, memo, mainPc, seedURL, wpc, wlookup, wbody,
           wnext, enq, countTotalRequests, requestsDone, printed,
           fetchLog, failLog, sentLog, consumed, wstage,
           fnPc, fnIn, fnHost, fnOut >>

engineVars == << osArgs, Host, Opts, Counter, web, memo, mainPc, seedURL, wpc, wlookup,
                 wbody, wnext, enq, countTotalRequests, requestsDone, printed,
                 fetchLog, failLog, sentLog, consumed, wstage >>

fnVars == << fnPc, fnIn, fnHost, fnOut >>

-----------------------------------------------------------------------------
(* Characters and string helpers                                           *)

Letters ==
    {"a","b","c","d","e","f","g","h","i","j","k","l","m","n","o","p","q",
     "r","s","t","u","v","w","x","y","z"}

Digits == {"0","1","2","3","4","5","6","7","8","9"}

Min(S) == CHOOSE x \in S : \A y \in S : x <= y

Max(S) == CHOOSE x \in S : \A y \in S : x >= y

\* strings.HasPrefix
HasPrefix(s, p) == Len(s) >= Len(p) /\ SubSeq(s, 1, Len(p)) = p

\* s[i:] of Go with i 0-based, as used after a prefix has been matched
Drop(s, n) == SubSeq(s, n + 1, Len(s))

\* whether p occurs in s at TLA+ index i
MatchAt(s, i, p) == i >= 1 /\ i + Len(p) - 1 <= Len(s) /\ SubSeq(s, i, i + Len(p) - 1) = p

\* strings.Index, 1-based; 0 when absent
Index(s, c) ==
    LET I == {i \in 1..Len(s) : s[i] = c}
    IN  IF I = {} THEN 0 ELSE Min(I)

\* strings.LastIndex, 1-based; 0 when absent
LastIndex(s, c) ==
    LET I == {i \in 1..Len(s) : s[i] = c}
    IN  IF I = {} THEN 0 ELSE Max(I)

\* the part of s before the first c (all of s when c is absent): strings.Cut
Before(s, c) == SubSeq(s, 1, Min({i \in 1..Len(s) : s[i] = c} \cup {Len(s) + 1}) - 1)

\* strings.Split(s, sep) for a one-character separator
RECURSIVE Split(_, _)
Split(s, c) ==
    IF Index(s, c) = 0 THEN << s >>
    ELSE << SubSeq(s, 1, Index(s, c) - 1) >> \o Split(Drop(s, Index(s, c)), c)

\* strings.Join for a one-character separator
RECURSIVE JoinSeq(_, _)
JoinSeq(parts, c) ==
    IF Len(parts) = 0 THEN << >>
    ELSE IF Len(parts) = 1 THEN parts[1]
    ELSE parts[1] \o << c >> \o JoinSeq(Tail(parts), c)

\* the literal "https://" of fmt.Sprintf("https://%s", ...)
HttpsPrefix == << "h","t","t","p","s",":","/","/" >>

\* the literal "http" of strings.HasPrefix(..., "http")
HttpLit == << "h","t","t","p" >>

-----------------------------------------------------------------------------
(* net/url.Parse, for URLs over letters, digits and . : / ? # - +          *)
(* (no userinfo, no %-escapes, no brackets, no control bytes: hrefs of the *)
(* model never contain them).                                              *)

\* url.getScheme: [kind |-> "none" | "scheme" | "err", at |-> index of ':']
getScheme(raw) ==
    LET Stops == {i \in 1..Len(raw) :
                     /\ raw[i] \notin Letters
                     /\ (raw[i] \notin (Digits \cup {"+", "-", "."}) \/ i = 1)}
    IN  IF Stops = {} THEN [kind |-> "none", at |-> 0]
        ELSE LET i == Min(Stops)
             IN  IF raw[i] = ":"
                 THEN IF i = 1 THEN [kind |-> "err", at |-> 0]
                               ELSE [kind |-> "scheme", at |-> i]
                 ELSE [kind |-> "none", at |-> 0]

\* url.validOptionalPort applied to the part of the host from its last ':'
validHostPort(host) ==
    LET i == LastIndex(host, ":")
    IN  i = 0 \/ \A j \in (i + 1)..Len(host) : host[j] \in Digits

\* the result of url.Parse when it returns an error
BadURL == [err |-> TRUE, Scheme |-> << >>, Host |-> << >>, Path |-> << >>]

\* url.parseAuthority / parseHost: the authority ends at the first "/", and
\* what follows it is the path
parseHost(scheme, auth, host) ==
    IF validHostPort(host)
    THEN [err |-> FALSE, Scheme |-> scheme, Host |-> host, Path |-> Drop(auth, Len(host))]
    ELSE BadURL

parseAuthority(scheme, auth) == parseHost(scheme, auth, Before(auth, "/"))

\* url.parse after the scheme, the query and the fragment are cut off
parseRest(scheme, rest) ==
    IF ~HasPrefix(rest, << "/" >>)
    THEN IF scheme # << >>
         \* opaque URL: no host, no path
         THEN [err |-> FALSE, Scheme |-> scheme, Host |-> << >>, Path |-> << >>]
         ELSE IF Index(Before(rest, "/"), ":") # 0
              \* first path segment in URL cannot contain colon
              THEN BadURL
              ELSE [err |-> FALSE, Scheme |-> scheme, Host |-> << >>, Path |-> rest]
    ELSE IF /\ (scheme # << >> \/ ~HasPrefix(rest, << "/", "/", "/" >>))
            /\ HasPrefix(rest, << "/", "/" >>)
    THEN parseAuthority(scheme, Drop(rest, 2))
    ELSE [err |-> FALSE, Scheme |-> scheme, Host |-> << >>, Path |-> rest]

\* url.parse once getScheme has returned sch for u
parseScheme(u, sch) ==
    IF sch.kind = "err" THEN BadURL
    ELSE IF sch.kind = "scheme"
    THEN parseRest(SubSeq(u, 1, sch.at - 1), Before(Drop(u, sch.at), "?"))
    ELSE parseRest(<< >>, Before(u, "?"))

\* url.parse of the URL without its fragment
parse(u) == parseScheme(u, getScheme(u))

\* url.Parse: [err, Scheme, Host, Path]
urlParse(rawURL) == parse(Before(rawURL, "#"))

-----------------------------------------------------------------------------
(* path.Join / path.Clean                                                  *)

\* the segment stack of path.Clean: "." and "" dropped, ".." pops
RECURSIVE cleanSegs(_, _, _)
cleanSegs(segs, acc, rooted) ==
    IF Len(segs) = 0 THEN acc
    ELSE LET s == Head(segs)
         IN  IF s = << >> \/ s = << "." >>
             THEN cleanSegs(Tail(segs), acc, rooted)
             ELSE IF s = << ".", "." >>
             THEN IF Len(acc) > 0 /\ acc[Len(acc)] # << ".", "." >>
                  THEN cleanSegs(Tail(segs), SubSeq(acc, 1, Len(acc) - 1), rooted)
                  ELSE IF rooted
                       THEN cleanSegs(Tail(segs), acc, rooted)
                       ELSE cleanSegs(Tail(segs), Append(acc, s), rooted)
             ELSE cleanSegs(Tail(segs), Append(acc, s), rooted)

\* the end of path.Clean: the leading "/" is put back, and "" becomes "."
cleaned(rooted, body) ==
    IF rooted THEN << "/" >> \o body
    ELSE IF body = << >> THEN << "." >> ELSE body

\* path.Clean
pathClean(p) ==
    IF p = << >> THEN << "." >>
    ELSE cleaned(p[1] = "/", JoinSeq(cleanSegs(Split(p, "/"), << >>, p[1] = "/"), "/"))

\* path.Join(a, b): empty elements are ignored, the rest joined by "/" and cleaned
pathJoin(a, b) ==
    IF a = << >> /\ b = << >> THEN << >>
    ELSE pathClean(IF a = << >> THEN b
                   ELSE IF b = << >> THEN a
                   ELSE a \o << "/" >> \o b)

-----------------------------------------------------------------------------
(* GetNextURLs (crawl.go:316-352)                                          *)

\* the literal href=" the regular expression starts with
HrefLit == << "h","r","e","f","=","\"" >>

\* regexp `href="(.*?)"`: where a match that starts at index i can end; (.*?)
\* never crosses a newline
hrefEnds(html, i) ==
    {j \in (i + 6)..Len(html) :
        html[j] = "\"" /\ \A k \in (i + 6)..(j - 1) : html[k] # "\n"}

\* the indexes from i on where a match starts
hrefStarts(html, i) ==
    {j \in i..Len(html) : MatchAt(html, j, HrefLit) /\ hrefEnds(html, j) # {}}

\* regexp `href="(.*?)"` FindAllString: the matches from index i on, left to
\* right and non-overlapping; (.*?) stops at the first quote
RECURSIVE findHrefs(_, _)
findHrefs(html, i) ==
    LET S == hrefStarts(html, i)
    IN  IF S = {} THEN << >>
        ELSE LET j == Min(S)
                 e == Min(hrefEnds(html, j))
             IN  << SubSeq(html, j, e) >> \o findHrefs(html, e + 1)

\* href[6 : len(href)-1]
trimHref(href) == SubSeq(href, 7, Len(href) - 1)

\* an href the loop of GetNextURLs skips
SkipHref == [ok |-> FALSE, key |-> << >>]

\* lines 340-344: the second url.Parse has returned u
hrefKey(u) ==
    IF u.err THEN SkipHref
    ELSE [ok |-> TRUE, key |-> HttpsPrefix \o pathJoin(u.Host, u.Path)]

\* lines 324-339: the first url.Parse of trimmedURL has returned first
hrefParsed(trimmedURL, host, first) ==
    IF HasPrefix(trimmedURL, HttpLit) /\ (first.err \/ first.Host # host)
    THEN SkipHref
    ELSE hrefKey(urlParse(IF HasPrefix(trimmedURL, HttpLit) THEN trimmedURL
                          ELSE IF first.err
                               THEN HttpsPrefix \o pathJoin(host, trimmedURL)
                               ELSE HttpsPrefix \o trimmedURL))

\* the body of the loop of GetNextURLs for one href value:
\* [ok |-> the href is kept, key |-> the string put in resMap]
resolveHref(trimmedURL, host) == hrefParsed(trimmedURL, host, urlParse(trimmedURL))

\* the keys the loop puts in resMap for the matches hrefs
resMapKeys(hrefs, host) ==
    {r.key : r \in {x \in {resolveHref(trimHref(hrefs[n]), host) : n \in 1..Len(hrefs)} : x.ok}}

\* GetNextURLs: the keys of resMap. The Go slice is built by ranging over the
\* map, so its order is unspecified: the result is modelled as the set.
GetNextURLs(htmlBody, host) == resMapKeys(findHrefs(htmlBody, 1), host)

-----------------------------------------------------------------------------
(* countWordsAndNumbers (crawl.go:110-145)                                 *)

Whitespace == {" ", "\n", "\t", "\r"}

\* strings.TrimSpace
TrimSpace(s) ==
    LET I == {i \in 1..Len(s) : s[i] \notin Whitespace}
    IN  IF I = {} THEN << >> ELSE SubSeq(s, Min(I), Max(I))

\* a run of decimal digits with at most one ".", and at least one digit
isMantissa(m) ==
    /\ \A i \in 1..Len(m) : m[i] \in Digits \cup {"."}
    /\ Cardinality({i \in 1..Len(m) : m[i] = "."}) <= 1
    /\ \E i \in 1..Len(m) : m[i] \in Digits

unsigned(w) == IF Len(w) > 0 /\ w[1] \in {"+", "-"} THEN Tail(w) ELSE w

\* strconv.ParseFloat(word, 64) returns no error: decimal literals with an
\* optional sign and exponent, and the special values inf, infinity, nan
\* (hexadecimal literals and out-of-range exponents do not occur in the
\* model's texts)
parsesAsFloat(word) ==
    LET s == unsigned(word)
        e == Index(s, "e")
    IN  \/ s \in {<< "i","n","f" >>, << "i","n","f","i","n","i","t","y" >>}
        \/ word = << "n","a","n" >>
        \/ e = 0 /\ isMantissa(s)
        \/ /\ e > 0
           /\ isMantissa(SubSeq(s, 1, e - 1))
           /\ LET x == unsigned(Drop(s, e))
              IN  Len(x) > 0 /\ \A i \in 1..Len(x) : x[i] \in Digits

\* lines 121-138: one text node html[contentStart:contentEnd] added to count
addNode(count, slice) ==
    LET text  == TrimSpace(slice)
        words == Split(text, " ")
        nums  == Cardinality({n \in 1..Len(words) : parsesAsFloat(words[n])})
    IN  IF Len(words) # 0 /\ Len(text) # 0
        THEN [Words   |-> count.Words + Len(words) - (count.Numbers + nums),
              Numbers |-> count.Numbers + nums]
        ELSE count

\* the for loop of lines 115-143, i the Go index. The loop body acts on the
\* bytes '<' and '>' only: k is the next index that holds one of them
RECURSIVE countLoop(_, _, _, _, _)
countLoop(html, i, contentStart, contentEnd, count) ==
    LET D == {j \in i..(Len(html) - 1) : html[j + 1] \in {"<", ">"}}
    IN  IF D = {} THEN count
        ELSE LET k   == Min(D)
                 ch  == html[k + 1]
                 ce  == IF ch = "<" /\ k # 0 THEN k - 1 ELSE contentEnd
                 cnt == IF ch = "<" /\ contentStart < ce
                        THEN addNode(count, SubSeq(html, contentStart + 1, ce))
                        ELSE count
                 cs  == IF ch = ">" THEN k + 1 ELSE contentStart
             IN  countLoop(html, k + 1, cs, ce, cnt)

\* the Count that countWordsAndNumbers writes to the map
countWordsAndNumbers(html) ==
    countLoop(html, 0, 0, 0, [Words |-> 0, Numbers |-> 0])

-----------------------------------------------------------------------------
(* getHTMLBodyString / preProcessHTMLString (crawl.go:160-200)             *)

BodyOpenLit == << "<","b","o","d","y" >>

BodyCloseLit == << "<","/","b","o","d","y",">" >>

ScriptOpenLit == << "<","s","c","r","i","p","t" >>

ScriptCloseLit == << "<","/","s","c","r","i","p","t",">" >>

StyleOpenLit == << "<","s","t","y","l","e" >>

StyleCloseLit == << "<","/","s","t","y","l","e",">" >>

\* lines 177-184: the last "<body" (Go index i, with i+6 < len) that is
\* followed by a '>' decides bodyStart; 0 when there is none
bodyStartOf(html) ==
    LET I == {i \in 0..(Len(html) - 1) :
                 /\ i + 6 < Len(html)
                 /\ MatchAt(html, i + 1, BodyOpenLit)
                 /\ \E j \in (i + 5)..(Len(html) - 1) : html[j + 1] = ">"}
    IN  IF I = {} THEN 0
        ELSE Min({j \in (Max(I) + 5)..(Len(html) - 1) : html[j + 1] = ">"}) + 1

\* lines 186-188: the last "</body>" (Go index i, with i+7 < len); 0 when none
bodyEndOf(html) ==
    LET I == {i \in 0..(Len(html) - 1) :
                 i + 7 < Len(html) /\ MatchAt(html, i + 1, BodyCloseLit)}
    IN  IF I = {} THEN 0 ELSE Max(I)

\* regexp open(.*)close: where the (.*) of a match that starts at index i can
\* end; (.*) never crosses a newline
regionEnds(s, i, open, close) ==
    {k \in (i + Len(open))..Len(s) :
        MatchAt(s, k, close) /\ \A m \in (i + Len(open))..(k - 1) : s[m] # "\n"}

\* regexp open(.*)close ReplaceAllString(s, ""): leftmost match, (.*) greedy;
\* the scan resumes after the match
RECURSIVE stripRegion(_, _, _, _)
stripRegion(s, i, open, close) ==
    LET S == {j \in i..Len(s) :
                 MatchAt(s, j, open) /\ regionEnds(s, j, open, close) # {}}
    IN  IF S = {} THEN SubSeq(s, i, Len(s))
        ELSE SubSeq(s, i, Min(S) - 1)
             \o stripRegion(s, Max(regionEnds(s, Min(S), open, close)) + Len(close),
                            open, close)

\* getHTMLBodyString: html[bodyStart:bodyEnd] panics when bodyStart > bodyEnd
getHTMLBodyString(html) ==
    LET bodyStart == bodyStartOf(html)
        bodyEnd   == bodyEndOf(html)
    IN  IF bodyStart > bodyEnd
        THEN [panic |-> TRUE, res |-> << >>]
        ELSE [panic |-> FALSE,
              res   |-> stripRegion(
                          stripRegion(SubSeq(html, bodyStart + 1, bodyEnd), 1,
                                      ScriptOpenLit, ScriptCloseLit),
                          1, StyleOpenLit, StyleCloseLit)]

\* strings.ReplaceAll(html, "\n", "")
removeNewlines(s) == SelectSeq(s, LAMBDA c : c # "\n")

\* lines 164-168: getHTMLBodyString has returned b
processed(b, host) ==
    IF b.panic THEN [panic |-> TRUE, html |-> << >>, next |-> {}]
    ELSE [panic |-> FALSE,
          html  |-> removeNewlines(b.res),
          next  |-> GetNextURLs(removeNewlines(b.res), host)]

\* preProcessHTMLString: [panic, html, next]
preProcessHTMLString(html, host) ==
    IF Len(html) = 0 \/ html[1] # "<"
    THEN [panic |-> FALSE, html |-> << >>, next |-> {}]
    ELSE processed(getHTMLBodyString(html), host)

-----------------------------------------------------------------------------
(* Inputs of the pure-function specifications                              *)

\* how many hrefs, text nodes and document parts an input is built from
MaxHrefs == 2

MaxNodes == 3

MaxParts == 3

GoogleHost == << "g","o","o","g","l","e",".","c","o","m" >>

\* href values: host-relative, bare host, other host, absolute, relative,
\* fragment, query, dot segments, a relative path that starts with "http",
\* and one url.Parse rejects (it starts with ':')
HrefPool ==
    << << "/","x" >>, << "/","y" >>, << "s","o","m","e","t","h","i","n","g",".","c","o","m" >>, << "g","o","o","g","l","e",".","c","o","m" >>, << "g","o","o","g","l","e",".","c","o","m","/","x" >>,
       << "h","t","t","p","s",":","/","/","g","o","o","g","l","e",".","c","o","m","/","x" >>, << "h","t","t","p",":","/","/","g","o","o","g","l","e",".","c","o","m" >>,
       << "h","t","t","p","s",":","/","/","s","o","m","e","t","h","i","n","g",".","c","o","m","/","x" >>, << "x" >>, << "#","t","o","p" >>, << "/","x","?","q","=","1" >>, << "a","/",".",".","/","x" >>,
       << "h","t","t","p","x" >>, << ":","x" >> >>

\* href="v" followed by a space
hrefAttr(v) == HrefLit \o v \o << "\"", " " >>

\* the input of TestGetNextURLS (crawl_test.go:115)
TestHrefHTML ==
    << "h","r","e","f","=","\"","/","x","\""," ","h","r","e","f","=","\"","s","o","m","e","t","h","i","n","g",".","c","o","m","\""," ","h","r","e","f","=","\"","g","o","o","g","l","e",".","c","o","m","\""," ","h","r","e","f","=","\"","g","o","o","g","l","e",".","c","o","m","/","x","\""," ","h","r","e","f","=","\"","/","y","\"" >>

RECURSIVE hrefDocs(_)
hrefDocs(n) ==
    IF n = 0 THEN {<< >>}
    ELSE hrefDocs(n - 1) \cup
         {d \o hrefAttr(HrefPool[k]) : d \in hrefDocs(n - 1), k \in 1..Len(HrefPool)}

LinkInputs == hrefDocs(MaxHrefs) \cup {TestHrefHTML}

\* every engine variable at rest, for the specifications of pure functions
EngineIdle ==
    /\ osArgs = << >>
    /\ Host = << >>
    /\ Opts = [Parallel |-> 0, MaxDepth |-> 0]
    /\ Counter = << >>
    /\ web = << >>
    /\ memo = << >>
    /\ mainPc = "idle"
    /\ seedURL = << >>
    /\ wpc = << >>
    /\ wlookup = << >>
    /\ wbody = << >>
    /\ wnext = << >>
    /\ enq = << >>
    /\ countTotalRequests = 0
    /\ requestsDone = 0
    /\ printed = << >>
    /\ fetchLog = << >>
    /\ failLog = << >>
    /\ sentLog = {}
    /\ consumed = 0
    /\ wstage = << >>

-----------------------------------------------------------------------------
(* SpecLinks: GetNextURLs applied to every input                           *)

InitLinks ==
    /\ EngineIdle
    /\ fnPc = "start"
    /\ fnHost = GoogleHost
    /\ fnIn \in LinkInputs
    /\ fnOut = {}

CallGetNextURLs ==
    /\ fnPc = "start"
    /\ fnPc' = "done"
    /\ fnOut' = GetNextURLs(fnIn, fnHost)
    /\ UNCHANGED << fnIn, fnHost >>
    /\ UNCHANGED engineVars

NextLinks == CallGetNextURLs

SpecLinks == InitLinks /\ [][NextLinks]_vars

-----------------------------------------------------------------------------
(* The crawl engine                                                        *)

\* bounds of the engine's runs
MaxParallel == 2

MaxDepthBound == 2

MaxFailures == 1

\* &Count{}: the placeholder Lookup writes when it claims a URL
ZeroCount == [Words |-> 0, Numbers |-> 0]

\* an assignment that replaces the map by one that holds the new key only
mapPut_Replace(m, k, v) == [x \in {k} |-> v]

\* c.Counter[key] = val
mapPut(m, k, v) == [x \in DOMAIN m \cup {k} |-> IF x = k THEN v ELSE m[x]]

\* one more occurrence of k in a log
bump(log, k) == mapPut(log, k, IF k \in DOMAIN log THEN log[k] + 1 ELSE 1)

\* the number of occurrences in a log
RECURSIVE logSize(_)
logSize(log) ==
    IF DOMAIN log = {} THEN 0
    ELSE LET k == CHOOSE x \in DOMAIN log : TRUE
         IN  log[k] + logSize([x \in DOMAIN log \ {k} |-> log[x]])

\* ExceedsMaxDepth with the limit one too high
ExceedsMaxDepth_OffByOne(o, depth) == o.MaxDepth + 1 < depth

\* Opts.ExceedsMaxDepth
ExceedsMaxDepth(o, depth) == o.MaxDepth < depth

\* initialise (crawl.go:202-224): the URL main crawls, << >> when it stops
HelpLit == << "h","e","l","p" >>

\* initialise without the test for "help"
initialise_HelpIsURL(args) ==
    IF Len(args) = 0 THEN << >>
    ELSE LET inputURL == args[Len(args)]
             withScheme == IF HasPrefix(inputURL, HttpLit) THEN inputURL
                           ELSE HttpsPrefix \o inputURL
         IN  IF urlParse(withScheme).err THEN << >>
             ELSE withScheme

initialise(args) ==
    IF Len(args) = 0 THEN << >>
    ELSE LET inputURL == args[Len(args)]
             withScheme == IF HasPrefix(inputURL, HttpLit) THEN inputURL
                           ELSE HttpsPrefix \o inputURL
         IN  IF inputURL = HelpLit THEN << >>
             ELSE IF urlParse(withScheme).err THEN << >>
             ELSE withScheme

\* ---- the pages of the model's web sites

\* <a href="v">x</a>
anchor(v) == << "<","a"," ","h","r","e","f","=","\"" >> \o v \o << "\"",">","x","<","/","a",">" >>

RECURSIVE anchors(_)
anchors(vs) == IF Len(vs) = 0 THEN << >> ELSE anchor(Head(vs)) \o anchors(Tail(vs))

\* a page with one paragraph of text and the given hrefs
page(text, hrefs) ==
    << "<","h","t","m","l",">","<","b","o","d","y",">","<","p",">" >> \o text \o << "<","/","p",">" >> \o anchors(hrefs) \o << "<","/","b","o","d","y",">","<","/","h","t","m","l",">" >>

\* the page of TestCrawl (crawl_test.go:86): it links to itself
TestCrawlDoc ==
    << "<","h","t","m","l",">","<","b","o","d","y",">","<","d","i","v",">","s","o","m","e"," ","w","o","r","d","s"," ","a","n","d"," ","1"," ","n","u","m","b","e","r","<","/","d","i","v",">","<","<","a"," ","h","r","e","f","=","\"","g","o","o","g","l","e",".","c","o","m","\""," ","/",">","<","/","b","o","d","y",">","<","/","h","t","m","l",">" >>

\* what a server answers for a URL it has no page for
NotFoundDoc == << "n","o","t"," ","f","o","u","n","d" >>

RootURL == << "h","t","t","p","s",":","/","/","g","o","o","g","l","e",".","c","o","m" >>

\* the sites: args is the command line, pages the documents by canonical URL
Sites ==
    << \* TestCrawl: one page that links to itself
       [args  |-> << RootURL >>,
        pages |-> (RootURL :> TestCrawlDoc)],
       \* a and b are both linked from the root, and a links to b and back
       [args  |-> << << "g","o","o","g","l","e",".","c","o","m" >> >>,
        pages |-> (RootURL :> page(<< "r","o","o","t"," ","1" >>, << << "g","o","o","g","l","e",".","c","o","m","/","a" >>, << "g","o","o","g","l","e",".","c","o","m","/","b" >> >>))
               @@ (<< "h","t","t","p","s",":","/","/","g","o","o","g","l","e",".","c","o","m","/","a" >> :> page(<< "2"," ","3"," ","a" >>, << << "g","o","o","g","l","e",".","c","o","m","/","b" >>, << "g","o","o","g","l","e",".","c","o","m" >> >>))
               @@ (<< "h","t","t","p","s",":","/","/","g","o","o","g","l","e",".","c","o","m","/","b" >> :> page(<< "b","e","e"," ","2","2"," ","e","n","d" >>, << >>))],
       \* the seed is given with the http scheme and its page links to itself
       [args  |-> << << "h","t","t","p",":","/","/","g","o","o","g","l","e",".","c","o","m" >> >>,
        pages |-> (RootURL :> page(<< "r","o","o","t"," ","1" >>, << << "h","t","t","p",":","/","/","g","o","o","g","l","e",".","c","o","m" >> >>))],
       \* a host-relative link and a link to another host
       [args  |-> << RootURL >>,
        pages |-> (RootURL :> page(<< "r","o","o","t"," ","1" >>, << << "/","x" >>, << "s","o","m","e","t","h","i","n","g",".","c","o","m" >> >>))
               @@ (<< "h","t","t","p","s",":","/","/","g","o","o","g","l","e",".","c","o","m","/","x" >> :> page(<< "t","w","o"," ","w","o","r","d","s" >>, << >>))
               @@ (<< "h","t","t","p","s",":","/","/","s","o","m","e","t","h","i","n","g",".","c","o","m" >> :> page(<< "o","t","h","e","r" >>, << >>))],
       \* b is linked from the root and from a, and only b links to c
       [args  |-> << RootURL >>,
        pages |-> (RootURL :> page(<< "r","o","o","t"," ","1" >>, << << "g","o","o","g","l","e",".","c","o","m","/","a" >>, << "g","o","o","g","l","e",".","c","o","m","/","b" >> >>))
               @@ (<< "h","t","t","p","s",":","/","/","g","o","o","g","l","e",".","c","o","m","/","a" >> :> page(<< "2"," ","3"," ","a" >>, << << "g","o","o","g","l","e",".","c","o","m","/","b" >> >>))
               @@ (<< "h","t","t","p","s",":","/","/","g","o","o","g","l","e",".","c","o","m","/","b" >> :> page(<< "b","e","e"," ","2","2"," ","e","n","d" >>, << << "g","o","o","g","l","e",".","c","o","m","/","c" >> >>))
               @@ (<< "h","t","t","p","s",":","/","/","g","o","o","g","l","e",".","c","o","m","/","c" >> :> page(<< "s","e","a"," ","3"," ","e","n","d" >>, << >>))] >>

\* http.Client.Do fails without a request when the URL names no host
noHost(u) == u.err \/ u.Host = << >>

mustFail(u) == noHost(urlParse(u))

\* the page a request for u asks the server for: the scheme and the query of
\* the request do not select the page
pageOf(u) == HttpsPrefix \o pathJoin(u.Host, u.Path)

pageKey(u) == pageOf(urlParse(u))

\* lines 102-103 for a response body d of a crawl of host h: what
\* preProcessHTMLString returns and the Count countWordsAndNumbers writes
analysed(pre) ==
    [panic |-> pre.panic, count |-> countWordsAndNumbers(pre.html), next |-> pre.next]

analyse(d, h) == analysed(preProcessHTMLString(d, h))

\* The functions above are pure, and a run applies them to the documents of
\* one site and to the URLs found in them only: their values on these are
\* computed once, when the run starts, and looked up by the steps of the run.
\* [analysis |-> document -> analyse, request |-> URL -> [fail, page]]
memoFor(pages, url, host) ==
    LET docs == {NotFoundDoc} \cup {pages[u] : u \in DOMAIN pages}
        an   == [d \in docs |-> analyse(d, host)]
        urls == {url} \cup UNION {an[d].next : d \in docs}
    IN  [analysis |-> an,
         request  |-> [u \in urls |-> [fail |-> mustFail(u), page |-> pageKey(u)]]]

\* the document the server answers a request for u with
serve(u) ==
    IF memo.request[u].page \in DOMAIN web
    THEN web[memo.request[u].page]
    ELSE NotFoundDoc

Workers == DOMAIN wpc

item(w) == [url |-> wlookup[w].URL, depth |-> wlookup[w].Depth]

NoLookup == [URL |-> << >>, Depth |-> 0]

\* the nil *Opts that initialise returns with the empty URL
NilOpts == [nil |-> TRUE]

\* a main whose loop starts one goroutine more than Opts.Parallel
start_ExtraWorker(sites) ==
    /\ \E s \in 1..Len(sites), p \in 1..MaxParallel, d \in (-1)..MaxDepthBound :
          \E url \in {initialise(sites[s].args)} :
              /\ osArgs = sites[s].args
              /\ web = sites[s].pages
              /\ seedURL = url
              /\ Opts = IF url = << >> THEN NilOpts ELSE [Parallel |-> p, MaxDepth |-> d]
              /\ Host = urlParse(url).Host
              /\ mainPc = IF url = << >> THEN "exited" ELSE "seed"
              /\ wpc = IF url = << >> THEN << >> ELSE [w \in 1..(p + 1) |-> "recv"]
              /\ wlookup = IF url = << >> THEN << >> ELSE [w \in 1..(p + 1) |-> NoLookup]
              /\ wbody = IF url = << >> THEN << >> ELSE [w \in 1..(p + 1) |-> << >>]
              /\ wnext = IF url = << >> THEN << >> ELSE [w \in 1..(p + 1) |-> {}]
              /\ wstage = IF url = << >> THEN << >> ELSE [w \in 1..(p + 1) |-> "none"]
    /\ memo = memoFor(web, seedURL, Host)
    /\ Counter = << >>
    /\ enq = << >>
    /\ countTotalRequests = 1
    /\ requestsDone = 0
    /\ printed = << >>
    /\ fetchLog = << >>
    /\ failLog = << >>
    /\ sentLog = {}
    /\ consumed = 0
    /\ fnPc = "idle" /\ fnIn = << >> /\ fnHost = << >> /\ fnOut = {}

\* main up to the first channel send (crawl.go:239-259): the crawler is
\* built and its workers wait on URLChan; or main has returned at line 242
start(sites) ==
    /\ \E s \in 1..Len(sites), p \in 1..MaxParallel, d \in (-1)..MaxDepthBound :
          \E url \in {initialise(sites[s].args)} :
              /\ osArgs = sites[s].args
              /\ web = sites[s].pages
              /\ seedURL = url
              /\ Opts = IF url = << >> THEN NilOpts ELSE [Parallel |-> p, MaxDepth |-> d]
              /\ Host = urlParse(url).Host
              /\ mainPc = IF url = << >> THEN "exited" ELSE "seed"
              /\ wpc = IF url = << >> THEN << >> ELSE [w \in 1..p |-> "recv"]
              /\ wlookup = IF url = << >> THEN << >> ELSE [w \in 1..p |-> NoLookup]
              /\ wbody = IF url = << >> THEN << >> ELSE [w \in 1..p |-> << >>]
              /\ wnext = IF url = << >> THEN << >> ELSE [w \in 1..p |-> {}]
              /\ wstage = IF url = << >> THEN << >> ELSE [w \in 1..p |-> "none"]
    /\ memo = memoFor(web, seedURL, Host)
    /\ Counter = << >>
    /\ enq = << >>
    /\ countTotalRequests = 1
    /\ requestsDone = 0
    /\ printed = << >>
    /\ fetchLog = << >>
    /\ failLog = << >>
    /\ sentLog = {}
    /\ consumed = 0
    /\ fnPc = "idle" /\ fnIn = << >> /\ fnHost = << >> /\ fnOut = {}

\* the runs over the sites
Init == start(Sites)

\* the process is alive: main has not returned and no goroutine has panicked
Running == mainPc \in {"seed", "wait", "print"}

\* crawl.go:262-265 with 291: main hands the seed to a waiting worker
SendSeed(w) ==
    /\ mainPc = "seed"
    /\ wpc[w] = "recv"
    /\ mainPc' = "wait"
    /\ wlookup' = [wlookup EXCEPT ![w] = [URL |-> seedURL, Depth |-> 0]]
    /\ wpc' = [wpc EXCEPT ![w] = "readMap"]
    /\ sentLog' = sentLog \cup {[url |-> seedURL, depth |-> 0]}
    /\ consumed' = consumed + 1
    /\ wstage' = [wstage EXCEPT ![w] = "none"]
    /\ UNCHANGED << osArgs, Host, Opts, Counter, web, memo, seedURL, wbody, wnext, enq,
                    countTotalRequests, requestsDone, printed, fetchLog, failLog >>
    /\ UNCHANGED fnVars

\* crawl.go:303-308 with 291: enqueue goroutine g hands one of its URLs to a
\* waiting worker at depth curDepth+1, and ends after its last one
RecvLookup(w, g) ==
    /\ Running
    /\ wpc[w] = "recv"
    /\ g \in 1..Len(enq)
    /\ \E u \in enq[g].next :
          /\ wlookup' = [wlookup EXCEPT ![w] = [URL |-> u, Depth |-> enq[g].depth + 1]]
          /\ sentLog' = sentLog \cup {[url |-> u, depth |-> enq[g].depth + 1]}
          /\ enq' = IF enq[g].next = {u}
                    THEN SubSeq(enq, 1, g - 1) \o SubSeq(enq, g + 1, Len(enq))
                    ELSE [enq EXCEPT ![g].next = @ \ {u}]
    /\ wpc' = [wpc EXCEPT ![w] = "readMap"]
    /\ consumed' = consumed + 1
    /\ wstage' = [wstage EXCEPT ![w] = "none"]
    /\ UNCHANGED << osArgs, Host, Opts, Counter, web, memo, mainPc, seedURL, wbody, wnext,
                    countTotalRequests, requestsDone, printed, fetchLog, failLog >>
    /\ UNCHANGED fnVars

\* crawl.go:70-74: readMap under the mutex; a visited URL ends the Lookup
ReadMap(w) ==
    /\ Running
    /\ wpc[w] = "readMap"
    /\ IF wlookup[w].URL \in DOMAIN Counter
       THEN /\ wpc' = [wpc EXCEPT ![w] = "spawn"]
            /\ wnext' = [wnext EXCEPT ![w] = {}]
       ELSE /\ wpc' = [wpc EXCEPT ![w] = "writeMap"]
            /\ UNCHANGED wnext
    /\ UNCHANGED << osArgs, Host, Opts, Counter, web, memo, mainPc, seedURL, wlookup, wbody, enq,
                    countTotalRequests, requestsDone, printed, fetchLog, failLog,
                    sentLog, consumed >>
    /\ UNCHANGED wstage
    /\ UNCHANGED fnVars

\* crawl.go:75-80: writeMap of the placeholder under the mutex, then the
\* depth test
WriteMap(w) ==
    /\ Running
    /\ wpc[w] = "writeMap"
    /\ Counter' = mapPut(Counter, wlookup[w].URL, ZeroCount)
    /\ IF ExceedsMaxDepth(Opts, wlookup[w].Depth)
       THEN /\ wpc' = [wpc EXCEPT ![w] = "spawn"]
            /\ wnext' = [wnext EXCEPT ![w] = {}]
       ELSE /\ wpc' = [wpc EXCEPT ![w] = "fetch"]
            /\ UNCHANGED wnext
    /\ UNCHANGED << osArgs, Host, Opts, web, memo, mainPc, seedURL, wlookup, wbody, enq,
                    countTotalRequests, requestsDone, printed, fetchLog, failLog,
                    sentLog, consumed >>
    /\ UNCHANGED wstage
    /\ UNCHANGED fnVars

\* a Lookup that returns the links of the body before the body is counted
FetchOK_ExpandFirst(w) ==
    /\ Running
    /\ wpc[w] = "fetch"
    /\ ~memo.request[wlookup[w].URL].fail
    /\ wbody' = [wbody EXCEPT ![w] = serve(wlookup[w].URL)]
    /\ wnext' = [wnext EXCEPT ![w] =
                    IF ExceedsMaxDepth(Opts, wlookup[w].Depth + 1)
                    THEN {} ELSE memo.analysis[serve(wlookup[w].URL)].next]
    /\ wpc' = [wpc EXCEPT ![w] = "spawn"]
    /\ fetchLog' = bump(fetchLog, item(w))
    /\ wstage' = [wstage EXCEPT ![w] = "fetched"]
    /\ UNCHANGED << osArgs, Host, Opts, Counter, web, memo, mainPc, seedURL, wlookup, enq,
                    countTotalRequests, requestsDone, printed, failLog, sentLog,
                    consumed >>
    /\ UNCHANGED fnVars

\* crawl.go:84-101, the request succeeds: the body is read
FetchOK(w) ==
    /\ Running
    /\ wpc[w] = "fetch"
    /\ ~memo.request[wlookup[w].URL].fail
    /\ wbody' = [wbody EXCEPT ![w] = serve(wlookup[w].URL)]
    /\ wpc' = [wpc EXCEPT ![w] = "count"]
    /\ fetchLog' = bump(fetchLog, item(w))
    /\ wstage' = [wstage EXCEPT ![w] = "fetched"]
    /\ UNCHANGED << osArgs, Host, Opts, Counter, web, memo, mainPc, seedURL, wlookup, wnext, enq,
                    countTotalRequests, requestsDone, printed, failLog, sentLog,
                    consumed >>
    /\ UNCHANGED fnVars

\* crawl.go:84-101, the request or the read of the body fails: Lookup
\* returns the error
FetchFail(w) ==
    /\ Running
    /\ wpc[w] = "fetch"
    /\ memo.request[wlookup[w].URL].fail \/ Len(failLog) < MaxFailures
    /\ wpc' = [wpc EXCEPT ![w] = "sendErr"]
    /\ wnext' = [wnext EXCEPT ![w] = {}]
    /\ fetchLog' = bump(fetchLog, item(w))
    /\ failLog' = Append(failLog, item(w))
    /\ UNCHANGED << osArgs, Host, Opts, Counter, web, memo, mainPc, seedURL, wlookup, wbody, enq,
                    countTotalRequests, requestsDone, printed, sentLog, consumed >>
    /\ UNCHANGED wstage
    /\ UNCHANGED fnVars

\* a Lookup without the depth test of line 104
Record_NoPrune(w) ==
    /\ Running
    /\ wpc[w] = "count"
    /\ LET pre == memo.analysis[wbody[w]]
       IN  IF pre.panic
           THEN /\ mainPc' = "crashed"
                /\ UNCHANGED << Counter, wnext, wpc, wstage >>
           ELSE /\ Counter' = mapPut(Counter, wlookup[w].URL, pre.count)
                /\ wnext' = [wnext EXCEPT ![w] = pre.next]
                /\ wpc' = [wpc EXCEPT ![w] = "spawn"]
                /\ wstage' = [wstage EXCEPT ![w] = "recorded"]
                /\ UNCHANGED mainPc
    /\ UNCHANGED << osArgs, Host, Opts, web, memo, seedURL, wlookup, wbody, enq,
                    countTotalRequests, requestsDone, printed, fetchLog, failLog,
                    sentLog, consumed >>
    /\ UNCHANGED fnVars

\* crawl.go:102-107: the body is analysed and the Count written under the
\* mutex; a panic of getHTMLBodyString ends the process
Record(w) ==
    /\ Running
    /\ wpc[w] = "count"
    /\ LET pre == memo.analysis[wbody[w]]
       IN  IF pre.panic
           THEN /\ mainPc' = "crashed"
                /\ UNCHANGED << Counter, wnext, wpc, wstage >>
           ELSE /\ Counter' = mapPut(Counter, wlookup[w].URL, pre.count)
                /\ wnext' = [wnext EXCEPT ![w] =
                                IF ExceedsMaxDepth(Opts, wlookup[w].Depth + 1)
                                THEN {} ELSE pre.next]
                /\ wpc' = [wpc EXCEPT ![w] = "spawn"]
                /\ wstage' = [wstage EXCEPT ![w] = "recorded"]
                /\ UNCHANGED mainPc
    /\ UNCHANGED << osArgs, Host, Opts, web, memo, seedURL, wlookup, wbody, enq,
                    countTotalRequests, requestsDone, printed, fetchLog, failLog,
                    sentLog, consumed >>
    /\ UNCHANGED fnVars

\* crawl.go:302-309: the goroutine that will send nextURLs is started
Spawn(w) ==
    /\ Running
    /\ wpc[w] = "spawn"
    /\ enq' = IF wnext[w] = {} THEN enq
              ELSE Append(enq, [next |-> wnext[w], depth |-> wlookup[w].Depth])
    /\ wpc' = [wpc EXCEPT ![w] = "send"]
    /\ UNCHANGED << osArgs, Host, Opts, Counter, web, memo, mainPc, seedURL, wlookup, wbody, wnext,
                    countTotalRequests, requestsDone, printed, fetchLog, failLog,
                    sentLog, consumed >>
    /\ UNCHANGED wstage
    /\ UNCHANGED fnVars

\* waitUntilDone comparing before it counts the request it received
collect_StaleCompare(res) ==
    /\ countTotalRequests' = countTotalRequests + res
    /\ requestsDone' = requestsDone + 1
    /\ mainPc' = IF requestsDone = countTotalRequests + res THEN "print" ELSE "wait"

\* crawl.go:275-281: waitUntilDone receives res
collect(res) ==
    /\ countTotalRequests' = countTotalRequests + res
    /\ requestsDone' = requestsDone + 1
    /\ mainPc' = IF requestsDone + 1 = countTotalRequests + res THEN "print" ELSE "wait"

\* crawl.go:310 with 275: the fan-out is handed to waitUntilDone
SendRes(w) ==
    /\ mainPc = "wait"
    /\ wpc[w] = "send"
    /\ collect(Cardinality(wnext[w]))
    /\ wpc' = [wpc EXCEPT ![w] = "recv"]
    /\ UNCHANGED << osArgs, Host, Opts, Counter, web, memo, seedURL, wlookup, wbody, wnext, enq,
                    printed, fetchLog, failLog, sentLog, consumed >>
    /\ UNCHANGED wstage
    /\ UNCHANGED fnVars

\* crawl.go:296-299 with 275: a failed Lookup hands 0 to waitUntilDone
SendErr(w) ==
    /\ mainPc = "wait"
    /\ wpc[w] = "sendErr"
    /\ collect(0)
    /\ wpc' = [wpc EXCEPT ![w] = "recv"]
    /\ UNCHANGED << osArgs, Host, Opts, Counter, web, memo, seedURL, wlookup, wbody, wnext, enq,
                    printed, fetchLog, failLog, sentLog, consumed >>
    /\ UNCHANGED wstage
    /\ UNCHANGED fnVars

\* crawl.go:285, 355-371: the report reads the map; main then returns
PrintResults ==
    /\ mainPc = "print"
    /\ printed' = Counter
    /\ mainPc' = "done"
    /\ UNCHANGED << osArgs, Host, Opts, Counter, web, memo, seedURL, wpc, wlookup, wbody, wnext,
                    enq, countTotalRequests, requestsDone, fetchLog, failLog,
                    sentLog, consumed >>
    /\ UNCHANGED wstage
    /\ UNCHANGED fnVars

Next ==
    \/ \E w \in Workers : SendSeed(w)
    \/ \E w \in Workers, g \in 1..Len(enq) : RecvLookup(w, g)
    \/ \E w \in Workers : ReadMap(w)
    \/ \E w \in Workers : WriteMap(w)
    \/ \E w \in Workers : FetchOK(w)
    \/ \E w \in Workers : FetchFail(w)
    \/ \E w \in Workers : Record(w)
    \/ \E w \in Workers : Spawn(w)
    \/ \E w \in Workers : SendRes(w)
    \/ \E w \in Workers : SendErr(w)
    \/ PrintResults

Spec == Init /\ [][Next]_vars

\* the Go scheduler runs every goroutine that can take a step
FairSpec == Spec /\ WF_vars(Next)

\* the command lines initialise rejects (crawl.go:204-216; crawl_test.go:71-79)
ConfigErrorRuns ==
    << [args |-> << >>, pages |-> << >>],
       [args |-> << HelpLit >>, pages |-> << >>] >>

\* sites with a page whose body getHTMLBodyString does not delimit
MalformedRuns ==
    << \* the document ends with </body>: i+7 < len(html) fails for it
       [args  |-> << RootURL >>,
        pages |-> (RootURL :> << "<","b","o","d","y",">","<","p",">","h","i"," ","1","<","/","p",">","<","/","b","o","d","y",">" >>)],
       \* the root links to a page whose </body> comes before its <body>
       [args  |-> << RootURL >>,
        pages |-> (RootURL :> page(<< "r","o","o","t"," ","1" >>, << << "g","o","o","g","l","e",".","c","o","m","/","m" >>, << "g","o","o","g","l","e",".","c","o","m","/","b" >> >>))
               @@ (<< "h","t","t","p","s",":","/","/","g","o","o","g","l","e",".","c","o","m","/","m" >> :> << "<","p",">","a"," ","b","<","/","p",">","<","/","b","o","d","y",">","<","b","o","d","y",">","<","p",">","c","<","/","p",">" >>)
               @@ (<< "h","t","t","p","s",":","/","/","g","o","o","g","l","e",".","c","o","m","/","b" >> :> page(<< "b","e","e"," ","2","2"," ","e","n","d" >>, << >>))] >>

\* the runs over the sites, the rejected command lines and the malformed pages
InitMain == start(Sites \o ConfigErrorRuns \o MalformedRuns)

SpecMain == InitMain /\ [][Next]_vars

-----------------------------------------------------------------------------
(* SpecCount: countWordsAndNumbers applied to bodies of 1..MaxNodes text   *)
(* nodes                                                                   *)

\* the text of TestCrawl, and texts with numbers first, last and alone
TextPool ==
    << << "s","o","m","e"," ","w","o","r","d","s"," ","a","n","d"," ","1"," ","n","u","m","b","e","r" >>, << "1"," ","a" >>, << "b"," ","c" >>, << "1"," ","2"," ","3" >>, << "w","o","r","d" >>,
       << "a"," ","1","2"," ","o","r"," ","3",".","5","x" >> >>

\* <p>text</p>
textNode(t) == << "<","p",">" >> \o t \o << "<","/","p",">" >>

RECURSIVE nodeLists(_)
nodeLists(n) ==
    IF n = 0 THEN {<< >>}
    ELSE nodeLists(n - 1) \cup
         {Append(l, k) : l \in nodeLists(n - 1), k \in 1..Len(TextPool)}

\* the body made of the text nodes l names
RECURSIVE nodesBody(_)
nodesBody(l) ==
    IF Len(l) = 0 THEN << >> ELSE textNode(TextPool[Head(l)]) \o nodesBody(Tail(l))

InitCount ==
    /\ EngineIdle
    /\ fnPc = "start"
    /\ fnHost = GoogleHost
    /\ fnIn \in nodeLists(MaxNodes) \ {<< >>}
    /\ fnOut = ZeroCount

CallCountWordsAndNumbers ==
    /\ fnPc = "start"
    /\ fnPc' = "done"
    /\ fnOut' = countWordsAndNumbers(nodesBody(fnIn))
    /\ UNCHANGED << fnIn, fnHost >>
    /\ UNCHANGED engineVars

NextCount == CallCountWordsAndNumbers

SpecCount == InitCount /\ [][NextCount]_vars

-----------------------------------------------------------------------------
(* SpecBody: preProcessHTMLString applied to documents whose body is made  *)
(* of 1..MaxParts parts                                                    *)

\* text, scripts on one line and over several lines, a style, a link
PartPool ==
    << [kind |-> "text",   src |-> << "<","p",">","k","e","e","p"," ","1","<","/","p",">" >>],
       [kind |-> "script", src |-> << "<","s","c","r","i","p","t",">","a","l","e","r","t","(","1",")","<","/","s","c","r","i","p","t",">" >>],
       [kind |-> "script", src |-> << "<","s","c","r","i","p","t"," ","t","y","p","e","=","\"","x","\"",">","\n","v","a","r"," ","a"," ","="," ","2","\n","<","/","s","c","r","i","p","t",">" >>],
       [kind |-> "style",  src |-> << "<","s","t","y","l","e",">","p"," ","{","}","<","/","s","t","y","l","e",">" >>],
       [kind |-> "text",   src |-> << "<","d","i","v",">","m","o","r","e","<","/","d","i","v",">" >>],
       [kind |-> "text",   src |-> << "<","a"," ","h","r","e","f","=","\"","g","o","o","g","l","e",".","c","o","m","/","x","\"",">","x","<","/","a",">" >>],
       [kind |-> "text",   src |-> << "\n" >>] >>

RECURSIVE partLists(_)
partLists(n) ==
    IF n = 0 THEN {<< >>}
    ELSE partLists(n - 1) \cup
         {Append(l, k) : l \in partLists(n - 1), k \in 1..Len(PartPool)}

RECURSIVE partsSrc(_)
partsSrc(l) ==
    IF Len(l) = 0 THEN << >> ELSE PartPool[Head(l)].src \o partsSrc(Tail(l))

\* the document whose body holds the parts l names
partsDoc(l) == << "<","h","t","m","l",">","<","b","o","d","y",">" >> \o partsSrc(l) \o << "<","/","b","o","d","y",">","<","/","h","t","m","l",">" >>

InitBody ==
    /\ EngineIdle
    /\ fnPc = "start"
    /\ fnHost = GoogleHost
    /\ fnIn \in partLists(MaxParts) \ {<< >>}
    /\ fnOut = [panic |-> FALSE, html |-> << >>, next |-> {}]

CallPreProcessHTMLString ==
    /\ fnPc = "start"
    /\ fnPc' = "done"
    /\ fnOut' = preProcessHTMLString(partsDoc(fnIn), fnHost)
    /\ UNCHANGED << fnIn, fnHost >>
    /\ UNCHANGED engineVars

NextBody == CallPreProcessHTMLString

SpecBody == InitBody /\ [][NextBody]_vars

-----------------------------------------------------------------------------
(* SpecFeed: preProcessHTMLString applied to Atom feeds of 1..MaxFeedParts *)
(* elements, as in TestXMLString (crawl.go:506-544)                        *)

MaxFeedParts == 3

\* the elements of a feed, each with the same-host URLs its href names
FeedPool ==
    << [src   |-> << "<","l","i","n","k"," ","r","e","l","=","\"","s","e","l","f","\""," ","h","r","e","f","=","\"","h","t","t","p","s",":","/","/","g","o","o","g","l","e",".","c","o","m","/","f","e","e","d","s","/","q","\""," ","/",">" >>,
        links |-> {<< "h","t","t","p","s",":","/","/","g","o","o","g","l","e",".","c","o","m","/","f","e","e","d","s","/","q" >>}],
       [src   |-> << "<","l","i","n","k"," ","r","e","l","=","\"","a","l","t","e","r","n","a","t","e","\""," ","h","r","e","f","=","\"","h","t","t","p","s",":","/","/","g","o","o","g","l","e",".","c","o","m","/","q","\""," ","/",">" >>,
        links |-> {<< "h","t","t","p","s",":","/","/","g","o","o","g","l","e",".","c","o","m","/","q" >>}],
       [src   |-> << "<","t","i","t","l","e"," ","t","y","p","e","=","\"","t","e","x","t","\"",">","f","e","e","d"," ","1","<","/","t","i","t","l","e",">" >>,
        links |-> {}],
       [src   |-> << "<","i","d",">","h","t","t","p","s",":","/","/","g","o","o","g","l","e",".","c","o","m","/","q","<","/","i","d",">" >>,
        links |-> {}],
       [src   |-> << "<","l","i","n","k"," ","h","r","e","f","=","\"","h","t","t","p","s",":","/","/","g","o","o","g","l","e",".","c","o","m","/","q","u","e","s","t","i","o","n","s","/","q","\""," ","/",">" >>,
        links |-> {<< "h","t","t","p","s",":","/","/","g","o","o","g","l","e",".","c","o","m","/","q","u","e","s","t","i","o","n","s","/","q" >>}] >>

RECURSIVE feedLists(_)
feedLists(n) ==
    IF n = 0 THEN {<< >>}
    ELSE feedLists(n - 1) \cup
         {Append(l, k) : l \in feedLists(n - 1), k \in 1..Len(FeedPool)}

RECURSIVE feedSrc(_)
feedSrc(l) ==
    IF Len(l) = 0 THEN << >>
    ELSE << "\n" >> \o FeedPool[Head(l)].src \o feedSrc(Tail(l))

\* the feed document whose elements l names: no <body> region, and it
\* begins with an <?xml declaration
feedDoc(l) ==
    << "<","?","x","m","l"," ","v","e","r","s","i","o","n","=","\"","1",".","0","\""," ","e","n","c","o","d","i","n","g","=","\"","u","t","f","-","8","\"","?",">","\n","<","f","e","e","d"," ","x","m","l","n","s","=","\"","h","t","t","p",":","/","/","w","w","w",".","w","3",".","o","r","g","/","2","0","0","5","/","A","t","o","m","\"",">" >> \o feedSrc(l) \o << "\n","<","/","f","e","e","d",">" >>

InitFeed ==
    /\ EngineIdle
    /\ fnPc = "start"
    /\ fnHost = GoogleHost
    /\ fnIn \in feedLists(MaxFeedParts) \ {<< >>}
    /\ fnOut = [panic |-> FALSE, html |-> << >>, next |-> {}]

CallPreProcessFeed ==
    /\ fnPc = "start"
    /\ fnPc' = "done"
    /\ fnOut' = preProcessHTMLString(feedDoc(fnIn), fnHost)
    /\ UNCHANGED << fnIn, fnHost >>
    /\ UNCHANGED engineVars

NextFeed == CallPreProcessFeed

SpecFeed == InitFeed /\ [][NextFeed]_vars

-----------------------------------------------------------------------------
(* Claims                                                                  *)

\* the canonical form https://host/path of a URL
canonical(u) == pageOf(urlParse(u))

\* the URLs for which an HTTP request was issued
fetchedURLs == {k.url : k \in DOMAIN fetchLog}

\* the number of HTTP requests issued for URL u
fetchesOf(u) ==
    logSize([k \in {x \in DOMAIN fetchLog : x.url = u} |-> fetchLog[k]])

\* C1: claiming a URL is exactly-once: no two workers hold a claim on the
\* same URL at the same time, and over a run no URL is fetched twice.
C1_ClaimExactlyOnce ==
    /\ \A w1, w2 \in Workers :
          /\ w1 # w2
          /\ wpc[w1] \in {"writeMap", "fetch", "count", "sendErr"}
          /\ wpc[w2] \in {"writeMap", "fetch", "count", "sendErr"}
          => wlookup[w1].URL # wlookup[w2].URL
    /\ \A u \in fetchedURLs : fetchesOf(u) <= 1

\* C2: when waitUntilDone has left its loop, no work item is still waiting
\* in an enqueue goroutine and no worker is still processing one.
C2_CompletionNotPremature ==
    mainPc \in {"print", "done"} =>
        /\ enq = << >>
        /\ \A w \in Workers : wpc[w] = "recv"

C4_StaysOnHost ==
    fnPc = "done" => \A u \in fnOut : urlParse(u).Host = fnHost

\* C5: an item consumed at a depth beyond MaxDepth is never fetched; the
\* result stored for its URL is zero-valued for the rest of the run, and
\* once its Lookup has returned it has fan-out 0 and its URL is in the store.
C5_NoFetchBeyondMaxDepth ==
    /\ \A k \in DOMAIN fetchLog : k.depth <= Opts.MaxDepth
    /\ \A it \in sentLog :
          it.depth > Opts.MaxDepth /\ it.url \in DOMAIN Counter
          => Counter[it.url] = ZeroCount
    /\ \A w \in Workers :
          /\ wpc[w] \in {"spawn", "send"}
          /\ wlookup[w].Depth > Opts.MaxDepth
          => /\ wnext[w] = {}
             /\ wlookup[w].URL \in DOMAIN Counter
             /\ Counter[wlookup[w].URL] = ZeroCount

\* the seed was consumed at depth 0 > MaxDepth, reported, and the run ended
\* without a single fetch
C5_Witness ==
    /\ mainPc = "done"
    /\ Opts.MaxDepth < 0
    /\ seedURL \in DOMAIN Counter
    /\ requestsDone = 1
    /\ fetchLog = << >>

\* C6: an item whose fetch failed reports fan-out 0 through the error
\* branch, and its URL stays in the store with the zero-valued placeholder.
C6_FailedFetchIsolated ==
    /\ \A w \in Workers : wpc[w] = "sendErr" => wnext[w] = {}
    /\ \A n \in 1..Len(failLog) :
          /\ failLog[n].url \in DOMAIN Counter
          /\ Counter[failLog[n].url] = ZeroCount

\* the hrefs of the input, in order
hrefsOf(html) ==
    LET hs == findHrefs(html, 1) IN [n \in 1..Len(hs) |-> trimHref(hs[n])]

\* C7: every href that starts with "/" is returned as https://host/path, and
\* the input of TestGetNextURLS yields exactly its three URLs.
C7_HostRelativeOntoHost ==
    fnPc = "done" =>
        /\ \A n \in 1..Len(hrefsOf(fnIn)) :
              HasPrefix(hrefsOf(fnIn)[n], << "/" >>) =>
                  HttpsPrefix \o pathJoin(fnHost, urlParse(hrefsOf(fnIn)[n]).Path)
                      \in fnOut
        /\ fnIn = TestHrefHTML =>
              fnOut = { << "h","t","t","p","s",":","/","/","g","o","o","g","l","e",".","c","o","m","/","x" >>, << "h","t","t","p","s",":","/","/","g","o","o","g","l","e",".","c","o","m" >>,
                        << "h","t","t","p","s",":","/","/","g","o","o","g","l","e",".","c","o","m","/","y" >> }

\* C8: at the end of a run every key of the store is canonical, and no two
\* different URLs with the same canonical form were both fetched.
C8_SchemeInsensitive ==
    mainPc = "done" =>
        /\ \A u \in DOMAIN Counter : u = canonical(u)
        /\ \A u1, u2 \in fetchedURLs : canonical(u1) = canonical(u2) => u1 = u2

\* the tokens of the text nodes of an input of SpecCount
RECURSIVE tokensOf(_)
tokensOf(l) ==
    IF Len(l) = 0 THEN << >>
    ELSE Split(TrimSpace(TextPool[Head(l)]), " ") \o tokensOf(Tail(l))

numbersOf(l) ==
    Cardinality({n \in 1..Len(tokensOf(l)) : parsesAsFloat(tokensOf(l)[n])})

\* C9: the recorded Words is the number of tokens of all text nodes minus
\* the number of those tokens that parse as a float.
C9_WordsAreTokensMinusNumbers ==
    fnPc = "done" => fnOut.Words = Len(tokensOf(fnIn)) - numbersOf(fnIn)

\* the parts of an input of SpecBody that are neither script nor style
RECURSIVE visibleSrc(_)
visibleSrc(l) ==
    IF Len(l) = 0 THEN << >>
    ELSE (IF PartPool[Head(l)].kind = "text" THEN PartPool[Head(l)].src ELSE << >>)
         \o visibleSrc(Tail(l))

\* C10: every script and style region is removed from the body, and
\* everything outside those regions is kept.
C10_ScriptStyleRemoved ==
    fnPc = "done" => fnOut.html = removeNewlines(visibleSrc(fnIn))

\* the same-host URLs the hrefs of an input of SpecFeed name
feedLinks(l) == UNION {FeedPool[l[n]].links : n \in 1..Len(l)}

\* C11: a document without <body> region that begins with an <?xml
\* declaration is taken whole as the body: preProcessHTMLString returns
\* non-empty text and the same-host links of the feed.
C11_FeedFallback ==
    fnPc = "done" =>
        /\ ~fnOut.panic
        /\ fnOut.html # << >>
        /\ fnOut.next = feedLinks(fnIn)

\* C12: when the argument list is empty or its sole argument is "help",
\* initialise returns the empty URL and nil options, and main starts no
\* worker, sends no item and performs no fetch.
C12_ConfigErrorStopsRun ==
    (osArgs = << >> \/ osArgs = << HelpLit >>) =>
        /\ seedURL = << >>
        /\ Opts = NilOpts
        /\ mainPc = "exited"
        /\ Workers = {}
        /\ enq = << >>
        /\ sentLog = {}
        /\ consumed = 0
        /\ fetchLog = << >>

\* main has returned at crawl.go:242 for the command line "help"
C12_Witness == osArgs = << HelpLit >> /\ mainPc = "exited"

\* C13: once waitUntilDone has left its loop and PrintResults reads the
\* map, no step writes to Counter any more.
C13_ReportAfterQuiescence ==
    [][(mainPc = "print" \/ mainPc = "done") => Counter' = Counter]_vars

\* C14: for every successfully fetched page, the analysis is written to the
\* store before its links are handed to an enqueue goroutine and before its
\* completion is sent on ResChan: the step that ends the analysis writes the
\* Count, a worker that has left Lookup with a fetched body has written it,
\* and only such a worker starts a goroutine that sends links.
C14_RecordBeforeExpansion ==
    /\ [](\A w \in Workers :
            wpc[w] \in {"spawn", "send"} /\ (wstage[w] # "none" \/ wnext[w] # {})
            => wstage[w] = "recorded" /\ wlookup[w].URL \in DOMAIN Counter)
    /\ [][\A w \in Workers :
            wstage[w] = "fetched" /\ wstage'[w] = "recorded"
            => /\ wlookup[w].URL \in DOMAIN Counter'
               /\ Counter'[wlookup[w].URL] = memo.analysis[wbody[w]].count]_vars
    /\ [][Len(enq') > Len(enq) =>
            \E w \in Workers :
               /\ wpc[w] = "spawn" /\ wpc'[w] = "send"
               /\ wstage[w] = "recorded"
               /\ enq'[Len(enq')].next = wnext[w]]_vars

\* a worker is about to send the fan-out of a page it fetched, its analysis
\* is in the store and its links are held by an enqueue goroutine
C14_Witness ==
    \E w \in Workers :
        /\ wpc[w] = "send"
        /\ wstage[w] = "recorded"
        /\ wnext[w] # {}
        /\ Counter[wlookup[w].URL] # ZeroCount
        /\ \E g \in 1..Len(enq) : enq[g].next = wnext[w]

\* C15: an item fetched at depth d with d+1 > MaxDepth has its analysis
\* recorded but reports fan-out 0 and starts no enqueue goroutine; with
\* MaxDepth >= 0 no item deeper than MaxDepth is ever sent on URLChan or
\* held by an enqueue goroutine, and with MaxDepth = 0 only the seed is
\* fetched.
C15_ExpansionPrunedAtDepth ==
    /\ \A w \in Workers :
          /\ wpc[w] \in {"spawn", "send"}
          /\ wstage[w] = "recorded"
          /\ wlookup[w].Depth + 1 > Opts.MaxDepth
          => wnext[w] = {}
    /\ Opts.MaxDepth >= 0 =>
          /\ \A it \in sentLog : it.depth <= Opts.MaxDepth
          /\ \A g \in 1..Len(enq) : enq[g].depth + 1 <= Opts.MaxDepth
    /\ Opts.MaxDepth = 0 => fetchedURLs \subseteq {seedURL}

\* with MaxDepth = 0 the seed page, which has links, was fetched and
\* recorded, reported fan-out 0, and the run ended with nothing else sent
C15_Witness ==
    /\ mainPc = "done"
    /\ Opts.MaxDepth = 0
    /\ fetchedURLs = {seedURL}
    /\ Counter[seedURL] # ZeroCount
    /\ memo.analysis[web[RootURL]].next # {}
    /\ sentLog = {[url |-> seedURL, depth |-> 0]}
    /\ countTotalRequests = 1

\* the number of items the enqueue goroutines still have to send
RECURSIVE pending(_)
pending(q) == IF Len(q) = 0 THEN 0 ELSE Cardinality(Head(q).next) + pending(Tail(q))

\* the number of workers that have started their goroutine and not yet sent
\* its fan-out on ResChan, counted with that fan-out
RECURSIVE unreported(_)
unreported(W) ==
    IF W = {} THEN 0
    ELSE LET w == CHOOSE x \in W : TRUE
         IN  (IF wpc[w] = "send" THEN Cardinality(wnext[w]) ELSE 0)
             + unreported(W \ {w})

\* C16: the fan-out an item sends on ResChan is the number of items its
\* enqueue goroutine sends on URLChan: what was reported or is about to be
\* equals what was sent or is still held by a goroutine; an item whose claim
\* failed reports 0; every item sent is one level below a fetched one; and
\* when the run is over, a goroutine that still holds items belongs to an
\* item that has not sent its fan-out.
C16_FanOutMatchesExpansion ==
    /\ Running =>
          (countTotalRequests - 1) + unreported(Workers)
              = (consumed - (IF mainPc = "seed" THEN 0 ELSE 1)) + pending(enq)
    /\ \A w \in Workers :
          wpc[w] \in {"spawn", "send"} /\ wstage[w] = "none" => wnext[w] = {}
    /\ \A it \in sentLog :
          it.depth = 0 \/ \E k \in DOMAIN fetchLog : k.depth + 1 = it.depth
    /\ mainPc = "done" =>
          \A g \in 1..Len(enq) :
              \E w \in Workers :
                  /\ wpc[w] = "send"
                  /\ wlookup[w].Depth = enq[g].depth
                  /\ enq[g].next \subseteq wnext[w]

\* C17: the visited set only grows: a key of Counter stays a key in every
\* later state, and a final analysis is only written for a URL that was
\* claimed (is a key) before.
C17_VisitedOnlyGrows ==
    /\ [][DOMAIN Counter \subseteq DOMAIN Counter']_vars
    /\ [][\A w \in Workers :
            wstage[w] = "fetched" /\ wstage'[w] = "recorded"
            => wlookup[w].URL \in DOMAIN Counter]_vars

\* a run has ended with three keys in the store, two of them with their
\* final analysis
C17_Witness ==
    /\ mainPc = "done"
    /\ Cardinality(DOMAIN Counter) = 3
    /\ Cardinality({u \in DOMAIN Counter : Counter[u] # ZeroCount}) >= 2

\* the links Lookup finds on the page the server answers a request for u with
linksOf(u) == memo.analysis[serve(u)].next

\* the URLs within link distance k of the seed
RECURSIVE within(_)
within(k) ==
    IF k = 0 THEN {seedURL}
    ELSE within(k - 1) \cup UNION {linksOf(u) : u \in within(k - 1)}

\* every item sent was delivered and reported
quiescent == enq = << >> /\ \A w \in Workers : wpc[w] = "recv"

\* C18: when a run has ended without a fetch failure, with every item
\* delivered and reported, every URL within link distance MaxDepth of the
\* seed has been fetched and its analysis is in the store, whatever the
\* order in which the items were delivered.
C18_DepthComplete ==
    mainPc = "done" /\ quiescent /\ failLog = << >> /\ Opts.MaxDepth >= 0 =>
        \A u \in within(Opts.MaxDepth) :
            /\ u \in fetchedURLs
            /\ u \in DOMAIN Counter
            /\ Counter[u] = memo.analysis[serve(u)].count

\* C19: a recorded result is stable: a stored value that is not the
\* zero-valued placeholder is a final analysis, and it never changes again.
C19_RecordedResultStable ==
    [][\A u \in DOMAIN Counter :
          Counter[u] # ZeroCount => u \in DOMAIN Counter' /\ Counter'[u] = Counter[u]]_vars

\* the work items that were received from URLChan and whose completion has
\* not been sent on ResChan
inFlight == {w \in Workers : wpc[w] # "recv"}

\* C20: every consumed item produces exactly one completion signal,
\* whatever the fetched document contains: no worker aborts the process, and
\* the items consumed are those reported plus those still being processed.
C20_OneSignalPerItem ==
    /\ mainPc # "crashed"
    /\ consumed = requestsDone + Cardinality(inFlight)

\* C21: the Words and Numbers that countWordsAndNumbers writes to the store
\* are never negative.
C21_CountsNonNegative ==
    fnPc = "done" => fnOut.Words >= 0 /\ fnOut.Numbers >= 0

\* the workers whose HTTP request is in flight
fetching == {w \in Workers : wpc[w] = "fetch"}

\* C22: the number of work items being processed, between their receipt
\* from URLChan and the send of their completion on ResChan, and hence the
\* number of HTTP requests in flight, is at most Opts.Parallel, however
\* many enqueue goroutines are pending.
C22_BoundedConcurrency ==
    /\ Cardinality(Workers) <= Opts.Parallel
    /\ Cardinality(inFlight) <= Opts.Parallel
    /\ Cardinality(fetching) <= Opts.Parallel
    /\ consumed - requestsDone <= Opts.Parallel

\* every worker has a request in flight while an enqueue goroutine still
\* holds items
C22_Witness ==
    /\ Opts.Parallel = 2
    /\ Cardinality(fetching) = 2
    /\ enq # << >>

====
